---------------------------- MODULE Spec2Model ----------------------------
(***************************************************************************)
(* Model of the transcript/caption alignment pipeline:                     *)
(*   data_utils/youtube_caption_aligner.py  (YouTubeCaptionAligner)        *)
(*   data_utils/aligner.py                  (Aligner.process)              *)
(*   data_utils/chunker.py                  (Chunker._get_chunks)          *)
(*   data_utils/utils.py                    (find_sublist_in_list)         *)
(*   generate_labeled_data.py               (main, the batch driver)       *)
(*                                                                         *)
(* Representation.  A word (token) is a sequence of one-character strings. *)
(* A text that the code only ever reads through str.split() (a caption's   *)
(* text, the transcript) is kept as the sequence of its words.  A text the *)
(* code builds (" ".join(...), += " " + ...) is kept as a string, i.e. a   *)
(* flat sequence of characters, built by Join and read back by Split.      *)
(* Times are integers (seconds).  Indices into Python lists are 0-based,   *)
(* as in the source; Slice and At convert to TLA+ sequences.               *)
(***************************************************************************)
EXTENDS Integers, Sequences, FiniteSets, TLC

\* ------------------------------------------------------------------ bounds
MaxWords == 3
MaxCaptions == 3
MaxTime == 2
MaxBootCaptions == 2
MaxBootWords == 4
MaxSegments == 3
MaxChunkTime == 2
MaxChunkLength == 2
MaxRows == 2

\* ------------------------------------------------------- python primitives
Min(a, b) == IF a < b THEN a ELSE b

Abs(x) == IF x < 0 THEN -x ELSE x

\* lst[a:b] for 0 <= a (0-based, end exclusive, clamped to the list)
Slice(s, a, b) == SubSeq(s, a + 1, Min(b, Len(s)))

\* lst[a:]
SliceFrom(s, a) == SubSeq(s, a + 1, Len(s))

\* lst[k] for a 0-based k
At(s, k) == s[k + 1]

\* ------------------------------------------------------------------ words
\* str.lower() on one character
LowerChar(c) == CASE c = "F" -> "f" [] c = "D" -> "d" [] OTHER -> c

\* string.punctuation, as far as the model's alphabet goes
Punctuation == {",", "-", "."}

\* word.lower()
Lower(w) == [k \in 1..Len(w) |-> LowerChar(w[k])]

IsNotPunctuation(c) == c \notin Punctuation

\* text.translate(str.maketrans("", "", string.punctuation)) on one word
RemovePunctuation(w) == SelectSeq(w, IsNotPunctuation)

\* self._remove_punctuation(word.lower())
Normalize(w) == RemovePunctuation(Lower(w))

IsNonEmpty(w) == w # <<>>

\* self._remove_punctuation(text.lower()).split(): every word normalized,
\* and a word made of punctuation only vanishes (split drops the gap)
NormalizeSplit(text) == SelectSeq([k \in 1..Len(text) |-> Normalize(text[k])], IsNonEmpty)

\* [self._remove_punctuation(word.lower()) for word in words]: a word made
\* of punctuation only stays, as the empty word
NormalizeEach(words) == [k \in 1..Len(words) |-> Normalize(words[k])]

fox == <<"f", "o", "x">>
FoxComma == <<"F", "o", "x", ",">>
dog == <<"d", "o", "g">>
the == <<"t", "h", "e">>
dash == <<"-">>

\* get_default_stop_words(): the words never used as anchors
unmatchable_words == {the}

\* " ".join(words)
RECURSIVE Join(_)
Join(words) ==
    IF words = <<>> THEN <<>>
    ELSE IF Len(words) = 1 THEN words[1]
    ELSE words[1] \o <<" ">> \o Join(Tail(words))

\* str.split(): the maximal runs of non-space characters
RECURSIVE SplitFrom(_, _)
SplitFrom(str, cur) ==
    IF str = <<>> THEN (IF cur = <<>> THEN <<>> ELSE <<cur>>)
    ELSE IF Head(str) = " "
         THEN (IF cur = <<>> THEN <<>> ELSE <<cur>>) \o SplitFrom(Tail(str), <<>>)
         ELSE SplitFrom(Tail(str), Append(cur, Head(str)))

Split(str) == SplitFrom(str, <<>>)

\* ------------------------------------------------------------------ state
VARIABLES
    pc,                  \* position in the session
    fetched_caption,     \* the captions as _fetch_data built them
    youtube_caption,     \* self._youtube_caption
    transcript_text,     \* self._transcript_text, as its words
    transcript_list,     \* self._transcript_list
    word_counts,         \* self._word_counts
    start_index,         \* _align_captions: start_index
    len_cur_text,        \* _align_captions: len_cur_text
    i,                   \* _align_captions: loop variable
    aligned_transcripts, \* _align_captions: aligned_transcripts
    raised,              \* the exception that ended the session, or "none"
    audio_source_length, \* _get_audio_souce_length(), in seconds
    wer,                 \* compute_wer(...) in hundredths, -1 before it is computed
    cosine_similarity,   \* compute_cosine_similarity(...) in hundredths, -1 before
    evaluated,           \* the checks _sanity_check_data has evaluated, in order
    transcript,          \* Chunker.transcript
    chunk_length,        \* Chunker.chunk_length
    chunk_start,         \* _get_chunks: chunk_start
    chunk_end,           \* _get_chunks: chunk_end
    chunk_text,          \* _get_chunks: chunk_text
    chunks,              \* _get_chunks: chunks
    seg,                 \* _get_chunks: 0-based index of the loop's segment
    rows,                \* main: the rows of the csv file
    index,               \* main: 0-based index of the row being processed
    out_path,            \* Aligner.process: what it returns, "None" for None
    aligned_transcript_json, \* the contents of aligned_transcript.json
    chunked_metadata     \* main: chunked_metadata

vars == <<pc, fetched_caption, youtube_caption, transcript_text, transcript_list,
          word_counts, start_index, len_cur_text, i, aligned_transcripts, raised,
          audio_source_length, wer, cosine_similarity, evaluated,
          transcript, chunk_length, chunk_start, chunk_end, chunk_text, chunks, seg,
          rows, index, out_path, aligned_transcript_json, chunked_metadata>>

inputVars == <<fetched_caption, youtube_caption, transcript_text, transcript_list,
               word_counts>>

alignVars == <<start_index, len_cur_text, i, aligned_transcripts>>

sanityVars == <<audio_source_length, wer, cosine_similarity, evaluated>>

chunkVars == <<transcript, chunk_length, chunk_start, chunk_end, chunk_text, chunks, seg>>

batchVars == <<rows, index, out_path, aligned_transcript_json, chunked_metadata>>

\* the values the variables of a component hold while it is not running
AlignIdle ==
    /\ start_index = 0
    /\ len_cur_text = 0
    /\ i = 0
    /\ aligned_transcripts = <<>>

SanityIdle ==
    /\ audio_source_length = 0
    /\ wer = -1
    /\ cosine_similarity = -1
    /\ evaluated = <<>>

ChunkIdle ==
    /\ transcript = <<>>
    /\ chunk_length = 0
    /\ chunk_start = 0
    /\ chunk_end = 0
    /\ chunk_text = <<>>
    /\ chunks = <<>>
    /\ seg = 0

BatchIdle ==
    /\ rows = <<>>
    /\ index = 0
    /\ out_path = "None"
    /\ aligned_transcript_json = <<>>
    /\ chunked_metadata = <<>>

\* TranscriptChunk(text, start, end)
TranscriptChunk(text, start, end) == [text |-> text, start |-> start, end |-> end]

\* _compute_word_counts_in_transcript
ComputeWordCounts(words) ==
    [w \in {Normalize(words[k]) : k \in 1..Len(words)} |->
        Cardinality({k \in 1..Len(words) : Normalize(words[k]) = w})]

\* -------------------------------------------------------------- the aligner
ValidateIgnoringUnmatchable(caption, counts) ==
    Len(caption.text) # 1 /\ caption.text[1] \in DOMAIN counts

\* _validate_youtube_caption (the caption's text has at least one word)
ValidateYoutubeCaption(caption, counts) ==
    IF Len(caption.text) = 1 THEN FALSE
    ELSE IF caption.text[1] \notin DOMAIN counts THEN FALSE
    ELSE IF caption.text[1] \in unmatchable_words THEN FALSE
    ELSE TRUE

\* the slice of the transcript searched for the anchor word
SearchRange(words, start, len, buffer) ==
    Slice(words, start + len - buffer, Min(start + len + buffer, Len(words)))

\* the 0-based positions of search_range whose word matches word_to_match
Matches(search_range, word_to_match) ==
    {k \in 0..(Len(search_range) - 1) :
        Normalize(At(search_range, k)) = Normalize(word_to_match)}

\* min(matches, key=lambda x: abs(x - center_index)): the first, in
\* ascending order, of the matches nearest to the center
ClosestMatchIndex(matches, center_index) ==
    CHOOSE x \in matches :
        \A y \in matches :
            \/ Abs(x - center_index) < Abs(y - center_index)
            \/ Abs(x - center_index) = Abs(y - center_index) /\ x <= y

TooManyMatchesAboveThree(matches) == Cardinality(matches) > 3

\* more than two matches: move on without a commit
TooManyMatches(matches) == Cardinality(matches) > 2

StartTimeOfFirstCaption(aligned, captions) == captions[1].start

\* start_time of a committed segment
StartTime(aligned, captions) ==
    IF Len(aligned) > 0 THEN aligned[Len(aligned)].end ELSE captions[1].start

EndTimeOfNext(next_caption) == next_caption.end

\* end_time of a committed segment
EndTime(next_caption) == next_caption.start

StartIndexSkippingMatch(start, len, buffer, closest) == start + len - buffer + closest + 1

\* start_index += len_cur_text - buffer + closest_match_index
NextStartIndex(start, len, buffer, closest) == start + len - buffer + closest

\* _process_alignment
ProcessAlignment ==
    /\ pc = "process_alignment"
    /\ IF youtube_caption = <<>> \/ transcript_list = <<>>
       THEN /\ pc' = "raised"
            /\ raised' = "ValueError"
            /\ UNCHANGED alignVars
       ELSE /\ pc' = "align_loop"
            /\ start_index' = 0
            /\ len_cur_text' = 0
            /\ aligned_transcripts' = <<>>
            /\ i' = 0
            /\ UNCHANGED raised
    /\ UNCHANGED <<inputVars, sanityVars, chunkVars>>
    /\ UNCHANGED batchVars

\* one iteration of the loop of _align_captions
AlignStep ==
    /\ pc = "align_loop"
    /\ i < Len(youtube_caption) - 1
    /\ LET cur_caption == At(youtube_caption, i)
           len == len_cur_text + Len(cur_caption.text)
           buffer == len
           next_caption == At(youtube_caption, i + 1)
           word_to_match == next_caption.text[1]
           search_range == SearchRange(transcript_list, start_index, len, buffer)
           center_index == Len(search_range) \div 2
           matches == Matches(search_range, word_to_match)
           closest_match_index == ClosestMatchIndex(matches, center_index)
       IN  IF ~ValidateYoutubeCaption(next_caption, word_counts)
           THEN /\ len_cur_text' = len
                /\ UNCHANGED <<start_index, aligned_transcripts>>
           ELSE IF matches = {} \/ TooManyMatches(matches)
           THEN /\ len_cur_text' = len
                /\ UNCHANGED <<start_index, aligned_transcripts>>
           ELSE /\ aligned_transcripts' = Append(aligned_transcripts,
                        TranscriptChunk(Join(Slice(search_range, 0, closest_match_index)),
                                        StartTime(aligned_transcripts, youtube_caption),
                                        EndTime(next_caption)))
                /\ start_index' = NextStartIndex(start_index, len, buffer, closest_match_index)
                /\ len_cur_text' = 0
    /\ i' = i + 1
    /\ UNCHANGED <<pc, raised, inputVars, sanityVars, chunkVars>>
    /\ UNCHANGED batchVars

\* after the loop: the final segment
AlignFinish ==
    /\ pc = "align_loop"
    /\ i >= Len(youtube_caption) - 1
    /\ IF aligned_transcripts = <<>>
       THEN /\ pc' = "raised"
            /\ raised' = "IndexError"
            /\ UNCHANGED aligned_transcripts
       ELSE /\ pc' = "aligned"
            /\ aligned_transcripts' = Append(aligned_transcripts,
                    TranscriptChunk(Join(SliceFrom(transcript_list, start_index)),
                                    aligned_transcripts[Len(aligned_transcripts)].end,
                                    youtube_caption[Len(youtube_caption)].end))
            /\ UNCHANGED raised
    /\ UNCHANGED <<start_index, len_cur_text, i, inputVars, sanityVars, chunkVars>>
    /\ UNCHANGED batchVars

\* ------------------------------------------------- inputs of the aligner
RECURSIVE SeqsUpTo(_, _)
SeqsUpTo(S, n) ==
    IF n = 0 THEN {<<>>}
    ELSE LET shorter == SeqsUpTo(S, n - 1)
         IN  shorter \cup {Append(s, x) : s \in {t \in shorter : Len(t) = n - 1}, x \in S}

TranscriptWords == {FoxComma, dog, the}

CaptionTexts == {<<fox>>, <<fox, dog>>, <<dog, fox>>, <<the, fox>>, <<FoxComma, dog>>}

\* captions whose times follow the provider's contract: caption k starts
\* at k seconds and lasts one second
CaptionsOfTexts(texts) ==
    [k \in 1..Len(texts) |-> TranscriptChunk(texts[k], k - 1, k)]

\* captions with arbitrary start times and durations 0 or 1
TimedCaptionTexts == {<<<<fox, dog>>, <<dog, fox>>, <<fox, dog>>>>,
                      <<<<dog>>, <<fox, dog>>, <<dog, fox>>>>,
                      <<<<fox, dog>>, <<dog, fox>>>>}

TimedCaptions(texts) ==
    {[k \in 1..Len(texts) |-> TranscriptChunk(texts[k], st[k], st[k] + du[k])] :
        st \in [1..Len(texts) -> 0..MaxTime], du \in [1..Len(texts) -> 0..1]}

\* up to max_captions captions on the provider's times with up to max_words
\* transcript words, and the timed captions with three transcripts
AlignInputs(max_captions, max_words) ==
    {[captions |-> CaptionsOfTexts(texts), words |-> words] :
        texts \in SeqsUpTo(CaptionTexts, max_captions) \ {<<>>},
        words \in SeqsUpTo(TranscriptWords, max_words)}
    \cup
    {[captions |-> captions, words |-> words] :
        captions \in UNION {TimedCaptions(texts) : texts \in TimedCaptionTexts},
        words \in {<<fox, dog, fox>>, <<dog, fox, dog>>, <<fox, dog>>}}

InitAlign ==
    /\ pc = "process_alignment"
    /\ \E in \in AlignInputs(MaxCaptions, MaxWords) :
        /\ fetched_caption = in.captions
        /\ youtube_caption = in.captions
        /\ transcript_text = in.words
        /\ transcript_list = in.words
        /\ word_counts = ComputeWordCounts(in.words)
    /\ raised = "none"
    /\ AlignIdle
    /\ SanityIdle
    /\ ChunkIdle
    /\ BatchIdle

NextAlign == ProcessAlignment \/ AlignStep \/ AlignFinish

SpecAlign == InitAlign /\ [][NextAlign]_vars

\* ------------------------------------------------- the bootstrap aligner
\* find_sublist_in_list: the first 0-based position of sublist in lst, or -1
FindSublistInList(sublist, lst) ==
    LET found == {k \in 0..(Len(lst) - Len(sublist)) :
                     Slice(lst, k, k + Len(sublist)) = sublist}
    IN  IF found = {} THEN -1 ELSE CHOOSE k \in found : \A m \in found : k <= m

\* sum(len(caption.text.split()) for caption in captions)
RECURSIVE CaptionWordCount(_)
CaptionWordCount(captions) ==
    IF captions = <<>> THEN 0
    ELSE Len(captions[1].text) + CaptionWordCount(Tail(captions))

BalancedAboveOne(transcript_length, youtube_caption_length) ==
    /\ 10 * youtube_caption_length < 10 * transcript_length
    /\ 10 * transcript_length < 11 * youtube_caption_length

\* case 1: 0.9 < transcript_length / youtube_caption_length < 1.1
Balanced(transcript_length, youtube_caption_length) ==
    /\ 9 * youtube_caption_length < 10 * transcript_length
    /\ 10 * transcript_length < 11 * youtube_caption_length

\* case 2: transcript_length / youtube_caption_length > 1.1
TranscriptLonger(transcript_length, youtube_caption_length) ==
    10 * transcript_length > 11 * youtube_caption_length

\* case 2: the first of the first 100 captions that has at least 3
\* normalized words and is found in the normalized transcript text
SearchCaptionsInTranscript(captions, text) ==
    LET transcript_text_list == NormalizeSplit(text)
        hits == {c \in 0..(Min(100, Len(captions)) - 1) :
                    /\ Len(NormalizeSplit(At(captions, c).text)) >= 3
                    /\ FindSublistInList(NormalizeSplit(At(captions, c).text),
                                         transcript_text_list) # -1}
    IN  IF hits = {}
        THEN [alignment_found |-> FALSE, transcript_index |-> 0,
              youtube_caption_index |-> 0]
        ELSE LET c == CHOOSE x \in hits : \A y \in hits : x <= y
             IN  [alignment_found |-> TRUE,
                  transcript_index |->
                      FindSublistInList(NormalizeSplit(At(captions, c).text),
                                        transcript_text_list),
                  youtube_caption_index |-> c]

\* case 3, inner loop: the first caption with at least 3 normalized words
\* that holds the window starting at transcript word w, or -1
CaptionHoldingWindow(captions, words, w) ==
    LET transcript_text_list == NormalizeEach(Slice(words, w, w + 3))
        hits == {c \in 0..(Len(captions) - 1) :
                    /\ Len(NormalizeSplit(At(captions, c).text)) >= 3
                    /\ FindSublistInList(transcript_text_list,
                                         NormalizeSplit(At(captions, c).text)) # -1}
    IN  IF hits = {} THEN -1 ELSE CHOOSE x \in hits : \A y \in hits : x <= y

\* case 3: the first window, over the first 100 transcript words, that a
\* caption holds; transcript_index is the position of the window inside
\* that caption (transcript_index = match)
SearchTranscriptInCaptions(captions, words) ==
    LET hits == {w \in 0..(Min(100, Len(words)) - 1) :
                    CaptionHoldingWindow(captions, words, w) # -1}
    IN  IF hits = {}
        THEN [alignment_found |-> FALSE, transcript_index |-> 0,
              youtube_caption_index |-> 0]
        ELSE LET w == CHOOSE x \in hits : \A y \in hits : x <= y
                 c == CaptionHoldingWindow(captions, words, w)
             IN  [alignment_found |-> TRUE,
                  transcript_index |->
                      FindSublistInList(NormalizeEach(Slice(words, w, w + 3)),
                                        NormalizeSplit(At(captions, c).text)),
                  youtube_caption_index |-> c]

\* _align_youtube_caption_transcript_starting_points, as a function of the
\* captions, the transcript words and the transcript text: what it returns
\* and what it leaves in self._youtube_caption and self._transcript_list
AlignStartingPoints(captions, words, text) ==
    IF Balanced(Len(words), CaptionWordCount(captions))
    THEN [alignment_found |-> TRUE, youtube_caption |-> captions,
          transcript_list |-> words]
    ELSE LET r == IF TranscriptLonger(Len(words), CaptionWordCount(captions))
                  THEN SearchCaptionsInTranscript(captions, text)
                  ELSE SearchTranscriptInCaptions(captions, words)
         IN  IF r.alignment_found
             THEN [alignment_found |-> TRUE,
                   youtube_caption |-> SliceFrom(captions, r.youtube_caption_index),
                   transcript_list |-> SliceFrom(words, r.transcript_index)]
             ELSE [alignment_found |-> FALSE, youtube_caption |-> captions,
                   transcript_list |-> words]

\* -------------------------------------------------- the compatibility checker
\* last_caption_end_time > audio_source_length
CaptionsOutlastAudio(last_caption_end_time, audio_length) ==
    last_caption_end_time > audio_length

WerAtLeastHalf(w) == w >= 50

\* wer > 0.5
WerTooHigh(w) == w > 50

SimilarityBelowEighty(c) == c < 80

\* cosine_similarity < 0.9
SimilarityTooLow(c) == c < 90

WerValues == {0, 50, 51}

SimilarityValues == {89, 90, 100}

\* _sanity_check_data, first check: the audio is as long as the captions;
\* self._youtube_caption[-1] of an empty list raises IndexError
CheckDuration ==
    /\ pc = "sanity_check"
    /\ IF youtube_caption = <<>>
       THEN /\ pc' = "raised"
            /\ raised' = "IndexError"
            /\ UNCHANGED evaluated
       ELSE /\ evaluated' = Append(evaluated, "duration")
            /\ pc' = IF CaptionsOutlastAudio(youtube_caption[Len(youtube_caption)].end,
                                             audio_source_length)
                     THEN "skipped" ELSE "sanity_wer"
            /\ UNCHANGED raised
    /\ UNCHANGED <<inputVars, alignVars, audio_source_length, wer,
                   cosine_similarity, chunkVars>>
    /\ UNCHANGED batchVars

\* second check: the word error rate, as jiwer computes it
CheckWer ==
    /\ pc = "sanity_wer"
    /\ \E w \in WerValues :
        /\ wer' = w
        /\ pc' = IF WerTooHigh(w) THEN "skipped" ELSE "sanity_similarity"
    /\ evaluated' = Append(evaluated, "wer")
    /\ UNCHANGED <<inputVars, alignVars, raised, audio_source_length,
                   cosine_similarity, chunkVars>>
    /\ UNCHANGED batchVars

\* third check: the cosine similarity, as scikit-learn computes it
CheckSimilarity ==
    /\ pc = "sanity_similarity"
    /\ \E c \in SimilarityValues :
        /\ cosine_similarity' = c
        /\ pc' = IF SimilarityTooLow(c) THEN "skipped" ELSE "sanity_bootstrap"
    /\ evaluated' = Append(evaluated, "similarity")
    /\ UNCHANGED <<inputVars, alignVars, raised, audio_source_length, wer,
                   chunkVars>>
    /\ UNCHANGED batchVars

\* fourth check: _align_youtube_caption_transcript_starting_points
CheckStartingPoints ==
    /\ pc = "sanity_bootstrap"
    /\ LET r == AlignStartingPoints(youtube_caption, transcript_list, transcript_text)
       IN  /\ youtube_caption' = r.youtube_caption
           /\ transcript_list' = r.transcript_list
           /\ pc' = IF r.alignment_found THEN "process_alignment" ELSE "skipped"
    /\ evaluated' = Append(evaluated, "bootstrap")
    /\ UNCHANGED <<fetched_caption, transcript_text, word_counts, alignVars, raised,
                   audio_source_length, wer, cosine_similarity, chunkVars>>
    /\ UNCHANGED batchVars

\* ------------------------------------------ inputs of the bootstrap aligner
BootWords == {FoxComma, dog, dash}

BootCaptionTexts == {<<dog>>, <<fox, dog>>, <<fox, dog, dog>>, <<dog, fox, dog>>,
                     <<dog, fox, dog, dog>>, <<fox, fox, dog, fox, dog>>}

\* a transcript with a preamble of five words that are not in the captions,
\* followed by the words of the captions
case == <<"c", "a", "s", "e">>
PreambleWords == {case, dash}

RECURSIVE Repeat(_, _)
Repeat(x, n) == IF n = 0 THEN <<>> ELSE <<x>> \o Repeat(x, n - 1)

RECURSIVE WordsOfCaptions(_)
WordsOfCaptions(captions) ==
    IF captions = <<>> THEN <<>>
    ELSE captions[1].text \o WordsOfCaptions(Tail(captions))

Preambles == {p \in SeqsUpTo(PreambleWords, 5) : Len(p) = 5}

PreambleCaptionTexts ==
    {<<<<fox, dog, fox>>>>, <<<<dog>>, <<fox, dog, dog>>>>, <<<<fox, dog>>, <<dog>>>>,
     Repeat(<<fox, dog, fox>>, 17), Repeat(<<fox, dog, dog, fox, dog>>, 10)}

\* up to max_captions captions with up to max_words transcript words, and
\* the transcripts with a preamble
BootInputs(max_captions, max_words) ==
    {[captions |-> CaptionsOfTexts(texts), words |-> words] :
        texts \in SeqsUpTo(BootCaptionTexts, max_captions) \ {<<>>},
        words \in SeqsUpTo(BootWords, max_words)}
    \cup
    {[captions |-> CaptionsOfTexts(texts),
      words |-> p \o WordsOfCaptions(CaptionsOfTexts(texts))] :
        texts \in PreambleCaptionTexts, p \in Preambles}

InitBoot ==
    /\ pc = "sanity_bootstrap"
    /\ \E in \in BootInputs(MaxBootCaptions, MaxBootWords) :
        /\ fetched_caption = in.captions
        /\ youtube_caption = in.captions
        /\ transcript_text = in.words
        /\ transcript_list = in.words
        /\ word_counts = ComputeWordCounts(in.words)
    /\ raised = "none"
    /\ AlignIdle
    /\ audio_source_length = 0
    /\ wer = -1
    /\ cosine_similarity = -1
    /\ evaluated = <<"duration", "wer", "similarity">>
    /\ ChunkIdle
    /\ BatchIdle

NextBoot == CheckStartingPoints

SpecBoot == InitBoot /\ [][NextBoot]_vars

\* --------------------------------- a session: Aligner.process after the fetch
ProcessInputs ==
    {[captions |-> CaptionsOfTexts(<<<<fox, dog>>, <<dog, fox>>>>),
      words |-> <<fox, dog, dog, fox>>],
     [captions |-> CaptionsOfTexts(<<<<fox, dog, dog>>>>),
      words |-> <<dash, dog, FoxComma, dog, dog>>],
     [captions |-> CaptionsOfTexts(<<<<fox, dog, dog>>, <<dog, fox>>>>),
      words |-> <<dog>>],
     [captions |-> CaptionsOfTexts(<<<<fox, dog>>>>),
      words |-> <<dog, dog, dog, dog>>],
     [captions |-> CaptionsOfTexts(<<<<dog>>, <<fox, dog, dog>>, <<dog, fox>>>>),
      words |-> <<case, dog, fox, dog, dog, dog, fox, dog>>]}

InitProcess ==
    /\ pc = "sanity_check"
    /\ \E in \in ProcessInputs :
        /\ fetched_caption = in.captions
        /\ youtube_caption = in.captions
        /\ transcript_text = in.words
        /\ transcript_list = in.words
        /\ word_counts = ComputeWordCounts(in.words)
        /\ audio_source_length \in
               {e + d : e \in {in.captions[Len(in.captions)].end}, d \in {-1, 0, 1}}
    /\ raised = "none"
    /\ AlignIdle
    /\ wer = -1
    /\ cosine_similarity = -1
    /\ evaluated = <<>>
    /\ ChunkIdle
    /\ BatchIdle

NextProcess ==
    \/ CheckDuration
    \/ CheckWer
    \/ CheckSimilarity
    \/ CheckStartingPoints
    \/ ProcessAlignment
    \/ AlignStep
    \/ AlignFinish

SpecProcess == InitProcess /\ [][NextProcess]_vars

\* ------------------------------------------------------------ the re-chunker
\* CHUNK_LENGTH of generate_labeled_data.py, in seconds
CHUNK_LENGTH == 30

CappedEndAlways(start, end, length) == start + length

\* if chunk_end - chunk_start >= self.chunk_length: the span is capped
CappedEnd(start, end, length) ==
    IF end - start >= length THEN start + length ELSE end

ClosesChunkAbove(current_length, addition_length, length) ==
    current_length + addition_length > length

\* (current_length + addition_length) >= self.chunk_length
ClosesChunk(current_length, addition_length, length) ==
    current_length + addition_length >= length

MergedTextUnspaced(text, segment_text) == text \o segment_text

\* chunk_text += " " + segment.text
MergedText(text, segment_text) == text \o <<" ">> \o segment_text

\* _get_chunks up to the loop: the pending chunk is the first segment
GetChunks ==
    /\ pc = "get_chunks"
    /\ IF transcript = <<>>
       THEN /\ pc' = "raised"
            /\ raised' = "IndexError"
            /\ UNCHANGED <<chunk_start, chunk_end, chunk_text, chunks, seg>>
       ELSE LET first_segment == At(transcript, 0)
            IN  /\ chunk_start' = first_segment.start
                /\ chunk_end' = CappedEnd(first_segment.start, first_segment.end,
                                          chunk_length)
                /\ chunk_text' = first_segment.text
                /\ chunks' = <<>>
                /\ seg' = 1
                /\ pc' = "chunk_loop"
                /\ UNCHANGED raised
    /\ UNCHANGED <<inputVars, alignVars, sanityVars, transcript, chunk_length>>
    /\ UNCHANGED batchVars

\* one iteration of the loop of _get_chunks
ChunkStep ==
    /\ pc = "chunk_loop"
    /\ seg < Len(transcript)
    /\ LET segment == At(transcript, seg)
           current_length == chunk_end - chunk_start
           addition_length == segment.end - chunk_end
       IN  IF ClosesChunk(current_length, addition_length, chunk_length)
           THEN /\ chunks' = Append(chunks,
                                    TranscriptChunk(chunk_text, chunk_start, chunk_end))
                /\ chunk_start' = segment.start
                /\ chunk_end' = CappedEnd(segment.start, segment.end, chunk_length)
                /\ chunk_text' = segment.text
           ELSE /\ chunk_end' = segment.end
                /\ chunk_text' = MergedText(chunk_text, segment.text)
                /\ UNCHANGED <<chunks, chunk_start>>
    /\ seg' = seg + 1
    /\ UNCHANGED <<pc, raised, inputVars, alignVars, sanityVars, transcript,
                   chunk_length>>
    /\ UNCHANGED batchVars

\* after the loop: the pending chunk is flushed
ChunkFinish ==
    /\ pc = "chunk_loop"
    /\ seg >= Len(transcript)
    /\ chunks' = Append(chunks, TranscriptChunk(chunk_text, chunk_start, chunk_end))
    /\ pc' = "chunked"
    /\ UNCHANGED <<raised, inputVars, alignVars, sanityVars, transcript, chunk_length,
                   chunk_start, chunk_end, chunk_text, seg>>
    /\ UNCHANGED batchVars

\* ------------------------------------------------ inputs of the re-chunker
\* the text of the k-th segment when the times are what varies
SegmentText(k) == <<"s">> \o Repeat("x", k)

\* segments with arbitrary times, end >= start, in any order
FreeSegments(n, max_time) ==
    {[k \in 1..n |-> TranscriptChunk(SegmentText(k), t[k][1], t[k][2])] :
        t \in [1..n -> {se \in (0..max_time) \X (0..max_time) : se[1] <= se[2]}]}

\* n contiguous segments of ten seconds each: 0-10, 10-20, ...
TenSecondSegments(n) ==
    [k \in 1..n |-> TranscriptChunk(SegmentText(k), 10 * (k - 1), 10 * k)]

\* ordered segments whose texts are what varies: an instant and a unit of
\* time alternating, or instants followed by a last segment of two units
SegmentTexts == {<<>>, <<"a">>, <<"b", " ", "c">>}

TextSegments(n) ==
    {[k \in 1..n |-> TranscriptChunk(tx[k], (k - 1) \div 2, k \div 2)] :
        tx \in [1..n -> SegmentTexts]}
    \cup
    {[k \in 1..n |-> TranscriptChunk(tx[k], 0, IF k = n THEN 2 ELSE 0)] :
        tx \in [1..n -> SegmentTexts]}

ChunkInputs(max_segments, max_time, max_length) ==
    {[transcript |-> segs, chunk_length |-> len] :
        segs \in UNION {FreeSegments(n, max_time) \cup TextSegments(n) :
                           n \in 0..max_segments},
        len \in 0..max_length}
    \cup
    {[transcript |-> TenSecondSegments(n), chunk_length |-> CHUNK_LENGTH] :
        n \in 1..(2 * max_segments + 1)}

InitChunk ==
    /\ pc = "get_chunks"
    /\ \E in \in ChunkInputs(MaxSegments, MaxChunkTime, MaxChunkLength) :
        /\ transcript = in.transcript
        /\ chunk_length = in.chunk_length
    /\ chunk_start = 0
    /\ chunk_end = 0
    /\ chunk_text = <<>>
    /\ chunks = <<>>
    /\ seg = 0
    /\ fetched_caption = <<>>
    /\ youtube_caption = <<>>
    /\ transcript_text = <<>>
    /\ transcript_list = <<>>
    /\ word_counts = ComputeWordCounts(<<>>)
    /\ raised = "none"
    /\ AlignIdle
    /\ SanityIdle
    /\ BatchIdle

NextChunk == GetChunks \/ ChunkStep \/ ChunkFinish

SpecChunk == InitChunk /\ [][NextChunk]_vars

\* ----------------------------------------------------------- the batch driver
\* the aligner, the checks' values and the chunker of a row that has ended
\* are not read again
SessionEnds ==
    /\ fetched_caption' = <<>>
    /\ youtube_caption' = <<>>
    /\ transcript_text' = <<>>
    /\ transcript_list' = <<>>
    /\ word_counts' = ComputeWordCounts(<<>>)
    /\ start_index' = 0
    /\ len_cur_text' = 0
    /\ i' = 0
    /\ aligned_transcripts' = <<>>
    /\ audio_source_length' = 0
    /\ wer' = -1
    /\ cosine_similarity' = -1
    /\ evaluated' = <<>>
    /\ transcript' = <<>>
    /\ chunk_length' = 0
    /\ chunk_start' = 0
    /\ chunk_end' = 0
    /\ chunk_text' = <<>>
    /\ chunks' = <<>>
    /\ seg' = 0
    /\ out_path' = "None"
    /\ aligned_transcript_json' = <<>>

\* main, top of the loop body: _validate_metadata and DataLoader.load_data;
\* a row that fails either is passed over with continue
MainNextRow ==
    /\ pc = "main_loop"
    /\ index < Len(rows)
    /\ LET row == At(rows, index)
       IN  IF ~row.valid_row \/ ~row.loaded
           THEN /\ index' = index + 1
                /\ UNCHANGED pc
           ELSE /\ pc' = "fetch_data"
                /\ UNCHANGED index
    /\ UNCHANGED <<inputVars, alignVars, raised, sanityVars, chunkVars, rows, out_path,
                   aligned_transcript_json, chunked_metadata>>

\* YouTubeCaptionAligner(...).process(), first step: _fetch_data
FetchData ==
    /\ pc = "fetch_data"
    /\ LET row == At(rows, index)
       IN  IF ~row.fetched
           THEN /\ pc' = "raised"
                /\ raised' = "ValueError"
                /\ UNCHANGED <<inputVars, audio_source_length>>
           ELSE /\ pc' = "sanity_check"
                /\ fetched_caption' = row.captions
                /\ youtube_caption' = row.captions
                /\ transcript_text' = row.words
                /\ transcript_list' = row.words
                /\ word_counts' = ComputeWordCounts(row.words)
                /\ audio_source_length' = row.audio
                /\ UNCHANGED raised
    /\ UNCHANGED <<alignVars, wer, cosine_similarity, evaluated, chunkVars, batchVars>>

\* Aligner.process: if not self._sanity_check_data(): return None
ProcessReturnsNone ==
    /\ pc = "skipped"
    /\ pc' = "process_returned"
    /\ out_path' = "None"
    /\ UNCHANGED <<inputVars, alignVars, raised, sanityVars, chunkVars, rows, index,
                   aligned_transcript_json, chunked_metadata>>

\* Aligner.process: out_path = self._save_results(results); the write of
\* transcript_chunks_to_json succeeds or fails, and a failed write returns None
SaveResults ==
    /\ pc = "aligned"
    /\ pc' = "process_returned"
    /\ \E written \in BOOLEAN :
        IF written
        THEN /\ aligned_transcript_json' = aligned_transcripts
             /\ out_path' = "aligned_transcript.json"
        ELSE /\ out_path' = "None"
             /\ UNCHANGED aligned_transcript_json
    /\ UNCHANGED <<inputVars, alignVars, raised, sanityVars, chunkVars, rows, index,
                   chunked_metadata>>

\* main: if aligned_transcript_path:
RunsChunker(aligned_transcript_path) == aligned_transcript_path # "None"

\* main after process() returned: Chunker(aligned_transcript_path, ...,
\* CHUNK_LENGTH) reads the saved segments, or the row ends
MainAfterProcess ==
    /\ pc = "process_returned"
    /\ IF RunsChunker(out_path)
       THEN /\ pc' = "get_chunks"
            /\ transcript' = aligned_transcript_json
            /\ chunk_length' = CHUNK_LENGTH
            /\ UNCHANGED <<inputVars, alignVars, sanityVars, chunk_start, chunk_end,
                           chunk_text, chunks, seg, index, out_path,
                           aligned_transcript_json>>
       ELSE /\ pc' = "main_loop"
            /\ index' = index + 1
            /\ SessionEnds
    /\ UNCHANGED <<raised, rows, chunked_metadata>>

\* the rows Chunker.process returns: one per chunk, the audio file named by
\* the chunk's times
RowMetadata(row_index, row_chunks) ==
    [k \in 1..Len(row_chunks) |->
        [audio |-> <<row_index, row_chunks[k].start, row_chunks[k].end>>,
         transcript |-> row_chunks[k].text]]

\* Chunker.process after _get_chunks, and pd.concat in main; the row ends
ChunkerProcess ==
    /\ pc = "chunked"
    /\ chunked_metadata' = chunked_metadata \o RowMetadata(index, chunks)
    /\ pc' = "main_loop"
    /\ index' = index + 1
    /\ SessionEnds
    /\ UNCHANGED <<raised, rows>>

\* an exception raised in process() or in the chunker is caught nowhere in
\* main: it ends the batch
Uncaught ==
    /\ pc = "raised"
    /\ pc' = "aborted"
    /\ UNCHANGED <<inputVars, alignVars, raised, sanityVars, chunkVars, batchVars>>

\* main after the loop: chunked_metadata.to_csv
MainDone ==
    /\ pc = "main_loop"
    /\ index >= Len(rows)
    /\ pc' = "done"
    /\ UNCHANGED <<inputVars, alignVars, raised, sanityVars, chunkVars, batchVars>>

\* ------------------------------------------------ inputs of the batch driver
\* a caption list and a transcript per row: those of ProcessInputs, a single
\* caption that is the whole transcript, and a video without captions
RowInputs ==
    ProcessInputs
    \cup {[captions |-> CaptionsOfTexts(<<<<fox, dog>>>>), words |-> <<fox, dog>>],
          [captions |-> <<>>, words |-> <<fox, dog>>]}

\* the end of the last caption, 0 without captions
LastCaptionEnd(captions) ==
    IF captions = <<>> THEN 0 ELSE captions[Len(captions)].end

\* a row of the csv file: whether its video's captions can be listed, its
\* files downloaded and its data fetched, and what is fetched
Rows ==
    {[valid_row |-> TRUE, loaded |-> TRUE, fetched |-> TRUE, captions |-> in.captions,
      words |-> in.words, audio |-> LastCaptionEnd(in.captions) - short] :
        in \in RowInputs, short \in {0, 1}}
    \cup
    {[valid_row |-> f[1], loaded |-> f[2], fetched |-> f[3], captions |-> <<>>,
      words |-> <<>>, audio |-> 0] :
        f \in {<<FALSE, TRUE, TRUE>>, <<TRUE, FALSE, TRUE>>, <<TRUE, TRUE, FALSE>>}}

InitBatch ==
    /\ pc = "main_loop"
    /\ rows \in {r \in SeqsUpTo(Rows, MaxRows) : r # <<>>}
    /\ index = 0
    /\ out_path = "None"
    /\ aligned_transcript_json = <<>>
    /\ chunked_metadata = <<>>
    /\ fetched_caption = <<>>
    /\ youtube_caption = <<>>
    /\ transcript_text = <<>>
    /\ transcript_list = <<>>
    /\ word_counts = ComputeWordCounts(<<>>)
    /\ raised = "none"
    /\ AlignIdle
    /\ SanityIdle
    /\ ChunkIdle

NextBatch ==
    \/ MainNextRow
    \/ FetchData
    \/ CheckDuration
    \/ CheckWer
    \/ CheckSimilarity
    \/ CheckStartingPoints
    \/ ProcessAlignment
    \/ AlignStep
    \/ AlignFinish
    \/ ProcessReturnsNone
    \/ SaveResults
    \/ MainAfterProcess
    \/ GetChunks
    \/ ChunkStep
    \/ ChunkFinish
    \/ ChunkerProcess
    \/ Uncaught
    \/ MainDone

SpecBatch == InitBatch /\ [][NextBatch]_vars

\* ======================================================================
\* Properties
\* ======================================================================
\* the words of all segments' texts, in order
RECURSIVE WordsOfSegments(_)
WordsOfSegments(segments) ==
    IF segments = <<>> THEN <<>>
    ELSE Split(segments[1].text) \o WordsOfSegments(Tail(segments))

\* C1: whenever the aligner returns, the words of its segments' texts,
\* concatenated in output order, are exactly the transcript words it was
\* given: none missing, none duplicated, none reordered.
C1_Reconstructs ==
    pc = "aligned" => WordsOfSegments(aligned_transcripts) = transcript_list

\* the aligner returned at least three segments, a committed one non-empty
C1_Witness ==
    /\ pc = "aligned"
    /\ Len(aligned_transcripts) >= 3
    /\ \E k \in 1..(Len(aligned_transcripts) - 1) : aligned_transcripts[k].text # <<>>


\* the captions' start times never decrease and no caption ends before it starts
CaptionsOrdered(captions) ==
    \A k \in 1..Len(captions) :
        /\ captions[k].end >= captions[k].start
        /\ k > 1 => captions[k].start >= captions[k - 1].start

\* C2: given captions with non-decreasing start times and end >= start, every
\* segment the aligner returns has end >= start, and each segment after the
\* first starts and ends no earlier than the end of the segment before it.
C2_SegmentsOrdered ==
    (pc = "aligned" /\ CaptionsOrdered(youtube_caption)) =>
        \A k \in 1..Len(aligned_transcripts) :
            /\ aligned_transcripts[k].end >= aligned_transcripts[k].start
            /\ k > 1 => /\ aligned_transcripts[k].start >= aligned_transcripts[k - 1].end
                        /\ aligned_transcripts[k].end >= aligned_transcripts[k - 1].end

\* ordered captions, two of them starting at the same time and one of no
\* duration, aligned into three segments, one of a positive length
C2_Witness ==
    /\ pc = "aligned"
    /\ CaptionsOrdered(youtube_caption)
    /\ Len(aligned_transcripts) >= 3
    /\ \E k \in 1..Len(youtube_caption) : youtube_caption[k].end = youtube_caption[k].start
    /\ \E k \in 2..Len(youtube_caption) :
           youtube_caption[k].start = youtube_caption[k - 1].start
    /\ \E k \in 1..Len(aligned_transcripts) :
           aligned_transcripts[k].end > aligned_transcripts[k].start

CheckOrder == <<"duration", "wer", "similarity", "bootstrap">>

IsPrefix(a, b) == Len(a) <= Len(b) /\ a = SubSeq(b, 1, Len(a))

\* the check holds of the session's data
CheckHeld(name) ==
    CASE name = "duration" ->
            fetched_caption[Len(fetched_caption)].end <= audio_source_length
      [] name = "wer" -> wer >= 0 /\ wer <= 50
      [] name = "similarity" -> cosine_similarity >= 90
      [] name = "bootstrap" ->
            AlignStartingPoints(fetched_caption, transcript_text,
                                transcript_text).alignment_found

SanityReturned ==
    pc \notin {"sanity_check", "sanity_wer", "sanity_similarity", "sanity_bootstrap"}

SanityPassed == SanityReturned /\ pc # "skipped"

\* C3: the checker evaluates the duration, error-rate, similarity and bootstrap
\* checks in that order, a check only after every earlier one held; it returns
\* pass exactly when all four hold and fail at the first that does not; and
\* as long as the bootstrap check has not run the sequences are untrimmed.
C3_SanityCheck ==
    /\ IsPrefix(evaluated, CheckOrder)
    /\ \A k \in 1..(Len(evaluated) - 1) : CheckHeld(evaluated[k])
    /\ SanityReturned =>
           (SanityPassed <=> /\ evaluated = CheckOrder
                             /\ \A k \in 1..Len(CheckOrder) : CheckHeld(CheckOrder[k]))
    /\ (SanityReturned /\ ~SanityPassed) => ~CheckHeld(evaluated[Len(evaluated)])
    /\ (\A k \in 1..Len(evaluated) : evaluated[k] # "bootstrap") =>
           /\ youtube_caption = fetched_caption
           /\ transcript_list = transcript_text

\* the checker passed with both metrics on their thresholds and the audio
\* exactly as long as the captions, after the bootstrap trimmed the transcript
C3_Witness ==
    /\ SanityPassed
    /\ wer = 50
    /\ cosine_similarity = 90
    /\ fetched_caption[Len(fetched_caption)].end = audio_source_length
    /\ transcript_list # transcript_text

\* the checker failed on the similarity, the bootstrap never ran
C3_WitnessShortCircuit ==
    /\ pc = "skipped"
    /\ evaluated = <<"duration", "wer", "similarity">>
    /\ wer = 50
    /\ cosine_similarity = 89

\* the failures that name an exhausted alignment
ExplicitAlignmentFailures == {"AlignmentExhaustedError"}

\* the loop of _align_captions has ended without a commit
LoopEndedWithoutCommit ==
    /\ pc \in {"raised", "aligned"}
    /\ raised # "ValueError"
    /\ aligned_transcripts = <<>>

\* C4: when the loop over the caption pairs commits no segment, the aligner
\* reports an explicit alignment failure.
C4_ZeroCommitsIsExplicitFailure ==
    LoopEndedWithoutCommit => raised \in ExplicitAlignmentFailures

\* the bootstrap aligner has run
BootstrapRan == \E k \in 1..Len(evaluated) : evaluated[k] = "bootstrap"

\* the lengths the bootstrap aligner compared
TranscriptLength == Len(transcript_text)

YoutubeCaptionLength == CaptionWordCount(fetched_caption)

InBalancedBand ==
    /\ 9 * YoutubeCaptionLength < 10 * TranscriptLength
    /\ 10 * TranscriptLength < 11 * YoutubeCaptionLength

InTranscriptLongerCase == 10 * TranscriptLength > 11 * YoutubeCaptionLength

InCaptionLongerCase == ~InBalancedBand /\ ~InTranscriptLongerCase

\* sub occurs in lst as a contiguous run starting at 0-based position k
OccursAt(sub, lst, k) ==
    /\ k + Len(sub) <= Len(lst)
    /\ \A m \in 1..Len(sub) : lst[k + m] = sub[m]

Occurs(sub, lst) == \E k \in 0..Len(lst) : OccursAt(sub, lst, k)

\* caption c (0-based) has at least three normalized words
LongCaption(c) == Len(NormalizeSplit(At(fetched_caption, c).text)) >= 3

\* the window of up to three transcript words starting at w, normalized
Window(w) == NormalizeEach(Slice(transcript_text, w, w + 3))

WindowMatches(w, c) ==
    LongCaption(c) /\ Occurs(Window(w), NormalizeSplit(At(fetched_caption, c).text))

\* (w, c) is the first match of the caption-longer search: no earlier window
\* is held by any caption, and no earlier caption holds window w
FirstWindowMatch(w, c) ==
    /\ WindowMatches(w, c)
    /\ \A w2 \in 0..(w - 1), c2 \in 0..(Len(fetched_caption) - 1) : ~WindowMatches(w2, c2)
    /\ \A c2 \in 0..(c - 1) : ~WindowMatches(w, c2)

\* C5: in the caption-longer case, on the first match of a transcript window
\* inside a caption, the transcript is trimmed to begin at that window's start
\* and the captions to begin at the matched caption (stated here for the
\* matches of a full window of three words).
C5_TrimsAtWindowStart ==
    (BootstrapRan /\ InCaptionLongerCase /\ pc # "skipped") =>
        \A w \in 0..(Len(transcript_text) - 1), c \in 0..(Len(fetched_caption) - 1) :
            (FirstWindowMatch(w, c) /\ Len(Window(w)) = 3) =>
                /\ transcript_list = SliceFrom(transcript_text, w)
                /\ youtube_caption = SliceFrom(fetched_caption, c)
                /\ OccursAt(Window(w), NormalizeEach(transcript_list), 0)

CaptionMatches(c) ==
    LongCaption(c) /\ Occurs(NormalizeSplit(At(fetched_caption, c).text),
                             NormalizeSplit(transcript_text))

\* C6: in the transcript-longer case, the first caption of at least three
\* normalized words that occurs in the normalized transcript decides the trim:
\* the captions begin at it and the trimmed transcript's leading words, once
\* normalized, are its normalized words.
C6_TrimsAtCaptionMatch ==
    (BootstrapRan /\ InTranscriptLongerCase /\ pc # "skipped") =>
        \E c \in 0..(Len(fetched_caption) - 1) :
            /\ CaptionMatches(c)
            /\ \A c2 \in 0..(c - 1) : ~CaptionMatches(c2)
            /\ youtube_caption = SliceFrom(fetched_caption, c)
            /\ OccursAt(NormalizeSplit(At(fetched_caption, c).text),
                        NormalizeSplit(transcript_list), 0)

\* the transcript is five preamble words, none of them in the captions,
\* followed by the words of the captions
PreambleScenario ==
    /\ Len(transcript_text) = 5 + YoutubeCaptionLength
    /\ \A k \in 1..5 : transcript_text[k] \in PreambleWords
    /\ SliceFrom(transcript_text, 5) = WordsOfCaptions(fetched_caption)

\* C7: a transcript made of a five-word preamble that is not in the captions
\* followed by the captions' words reaches the aligner without any word of
\* the preamble.
C7_PreambleTrimmed ==
    (BootstrapRan /\ PreambleScenario /\ pc = "process_alignment") =>
        \A k \in 1..Len(transcript_list) : transcript_list[k] \notin PreambleWords

\* C8: on a balanced pair, 0.9 < ratio < 1.1, the bootstrap aligner reports
\* success and leaves the captions and the transcript words as they were, and
\* so does a second application.
C8_BalancedUntouched ==
    (BootstrapRan /\ InBalancedBand) =>
        /\ pc # "skipped"
        /\ youtube_caption = fetched_caption
        /\ transcript_list = transcript_text
        /\ AlignStartingPoints(youtube_caption, transcript_list, transcript_text) =
               [alignment_found |-> TRUE, youtube_caption |-> fetched_caption,
                transcript_list |-> transcript_text]

\* the bootstrap aligner ran on a balanced pair of different lengths
C8_Witness ==
    /\ BootstrapRan
    /\ InBalancedBand
    /\ TranscriptLength # YoutubeCaptionLength
    /\ pc = "process_alignment"

\* the input is contiguous segments of ten seconds, chunk_length is 30
TenSecondScenario ==
    /\ chunk_length = 30
    /\ transcript # <<>>
    /\ \A k \in 1..Len(transcript) :
           transcript[k].start = 10 * (k - 1) /\ transcript[k].end = 10 * k

\* C9: with chunk_length 30 and contiguous ten-second segments, every chunk
\* but the last spans exactly 30 seconds.
C9_ChunksOfThirtySeconds ==
    (pc = "chunked" /\ TenSecondScenario) =>
        \A k \in 1..(Len(chunks) - 1) : chunks[k].end - chunks[k].start = 30

\* each segment ends no earlier than it starts and starts no earlier than
\* the segment before it ends
SegmentsOrdered(segments) ==
    \A k \in 1..Len(segments) :
        /\ segments[k].end >= segments[k].start
        /\ k > 1 => segments[k].start >= segments[k - 1].end

\* C10: for chunk_length > 0 and time-ordered segments, no two consecutive
\* chunks A, B could have been one chunk: B.end - A.start exceeds chunk_length.
C10_NoMergeableNeighbours ==
    (pc = "chunked" /\ chunk_length > 0 /\ SegmentsOrdered(transcript)) =>
        \A k \in 1..(Len(chunks) - 1) :
            chunks[k + 1].end - chunks[k].start > chunk_length

\* the texts of the segments, in order
TextsOf(segments) == [k \in 1..Len(segments) |-> segments[k].text]

\* C11: for a non-empty input and any chunk_length, the chunk texts joined by
\* single spaces, in order, are the input segment texts joined by single
\* spaces, also when an overlong segment's span is capped.
C11_TextPreserved ==
    (pc = "chunked" /\ transcript # <<>>) =>
        Join(TextsOf(chunks)) = Join(TextsOf(transcript))

\* the re-chunker returned after merging two segments, one of them with an
\* empty text, and after capping the span of an overlong segment
C11_Witness ==
    /\ pc = "chunked"
    /\ Len(chunks) = 2
    /\ Len(transcript) = 3
    /\ \E k \in 1..3 : transcript[k].text = <<>>
    /\ \E k \in 1..3 : transcript[k].end - transcript[k].start >= chunk_length

\* C12: for chunk_length > 0 and segments that are time-ordered and do not
\* overlap, the chunks never overlap: each chunk starts no earlier than the
\* chunk before it ends, and ends no earlier than it starts.
C12_ChunksDoNotOverlap ==
    (pc \in {"chunk_loop", "chunked"} /\ chunk_length > 0
        /\ SegmentsOrdered(transcript)) =>
        \A k \in 1..Len(chunks) :
            /\ chunks[k].end >= chunks[k].start
            /\ k > 1 => chunks[k].start >= chunks[k - 1].end

\* ordered segments were chunked into a merged chunk followed by a chunk
\* whose span was capped
C12_Witness ==
    /\ pc = "chunked"
    /\ chunk_length > 0
    /\ SegmentsOrdered(transcript)
    /\ Len(transcript) = 3
    /\ Len(chunks) = 2
    /\ chunks[1].end = transcript[2].end
    /\ chunks[2].end < transcript[3].end

\* the segments are in time order: none ends before it starts or starts
\* before the segment ahead of it starts
TimeOrdered(segments) ==
    \A k \in 1..Len(segments) :
        /\ segments[k].end >= segments[k].start
        /\ k > 1 => segments[k].start >= segments[k - 1].start

\* the span a chunk gets when the segment opens it
OpeningSpan(segment) ==
    IF segment.end - segment.start >= chunk_length THEN chunk_length
    ELSE segment.end - segment.start

OccursInTranscript(word) ==
    \E k \in 1..Len(transcript_text) :
        Normalize(transcript_text[k]) = Normalize(word)

\* the caption may not serve as an anchor
InvalidAnchor(caption) ==
    \/ Len(caption.text) = 1
    \/ ~OccursInTranscript(caption.text[1])
    \/ caption.text[1] \in unmatchable_words

\* C15: an iteration whose anchor caption is a single word, or has a first
\* word that, normalized, does not occur in the transcript, or has a first
\* word in the unmatchable words, commits nothing: no segment is added,
\* start_index stays, and the words of the current caption are added to the
\* pending count.
C15_InvalidAnchorNeverCommits ==
    [][(pc = "align_loop" /\ i' = i + 1
            /\ InvalidAnchor(At(youtube_caption, i + 1))) =>
        /\ aligned_transcripts' = aligned_transcripts
        /\ start_index' = start_index
        /\ len_cur_text' = len_cur_text + Len(At(youtube_caption, i).text)
      ]_vars

\* the second of three captions starts with an unmatchable word that the text
\* left of the transcript holds; it was passed over, its words were counted,
\* and the third caption then anchored a commit
C15_Witness ==
    /\ pc = "aligned"
    /\ Len(youtube_caption) = 3
    /\ Len(youtube_caption[2].text) > 1
    /\ youtube_caption[2].text[1] \in unmatchable_words
    /\ OccursInTranscript(youtube_caption[2].text[1])
    /\ ~InvalidAnchor(youtube_caption[3])
    /\ Len(aligned_transcripts) = 2
    /\ aligned_transcripts[1].end = youtube_caption[3].start

\* the caption words counted since the last commit, the current caption's
\* included
Accumulated == len_cur_text + Len(At(youtube_caption, i).text)

\* the positions of the transcript inside the search window whose word,
\* normalized, is the normalized first word of the anchor caption
WindowMatchPositions ==
    {p \in start_index..(Min(start_index + 2 * Accumulated, Len(transcript_list)) - 1) :
        Normalize(At(transcript_list, p))
            = Normalize(At(youtube_caption, i + 1).text[1])}

\* C16: in an iteration whose anchor caption passes the validity filter, a
\* segment is committed exactly when one or two positions of the search window
\* match the anchor word; without a commit no segment is added, start_index
\* stays and the pending count is carried forward; a commit resets the pending
\* count to zero.
C16_CommitOnOneOrTwoMatches ==
    [][(pc = "align_loop" /\ i' = i + 1
            /\ ValidateYoutubeCaption(At(youtube_caption, i + 1), word_counts)) =>
        IF Cardinality(WindowMatchPositions) \in {1, 2}
        THEN /\ Len(aligned_transcripts') = Len(aligned_transcripts) + 1
             /\ len_cur_text' = 0
        ELSE /\ aligned_transcripts' = aligned_transcripts
             /\ start_index' = start_index
             /\ len_cur_text' = Accumulated
      ]_vars

\* of three captions the second and the third are valid anchors; the second
\* anchored no commit, the third did, and the pending count is back at zero
C16_Witness ==
    /\ pc = "align_loop"
    /\ i = 2
    /\ Len(youtube_caption) = 3
    /\ ValidateYoutubeCaption(youtube_caption[2], word_counts)
    /\ ValidateYoutubeCaption(youtube_caption[3], word_counts)
    /\ Len(aligned_transcripts) = 1
    /\ aligned_transcripts[1].end = youtube_caption[3].start
    /\ youtube_caption[3].start # youtube_caption[2].start
    /\ len_cur_text = 0

\* the segment emitted last
LastSegment(segments) == segments[Len(segments)]

\* C17: a committed segment starts where the segment emitted before it ends
\* (the first one at the first caption's start) and ends at the anchor
\* caption's start; its text is the transcript words from start_index up to,
\* not including, the matched position, where the search continues. The final
\* segment starts at the end of the last committed segment, ends at the last
\* caption's end and holds the remaining words. Consecutive segments are
\* contiguous in time.
C17_SegmentsContiguous ==
    [][pc = "align_loop" =>
        /\ (i' = i + 1 /\ aligned_transcripts' # aligned_transcripts) =>
               LET segment == LastSegment(aligned_transcripts')
               IN  /\ aligned_transcripts' = Append(aligned_transcripts, segment)
                   /\ segment.start =
                          IF aligned_transcripts = <<>> THEN youtube_caption[1].start
                          ELSE LastSegment(aligned_transcripts).end
                   /\ segment.end = At(youtube_caption, i + 1).start
                   /\ start_index' \in WindowMatchPositions
                   /\ segment.text
                          = Join(Slice(transcript_list, start_index, start_index'))
        /\ pc' = "aligned" =>
               LET segment == LastSegment(aligned_transcripts')
               IN  /\ aligned_transcripts' = Append(aligned_transcripts, segment)
                   /\ segment.start = LastSegment(aligned_transcripts).end
                   /\ segment.end = LastSegment(youtube_caption).end
                   /\ segment.text = Join(SliceFrom(transcript_list, start_index))
        /\ \A k \in 2..Len(aligned_transcripts') :
               aligned_transcripts'[k].start = aligned_transcripts'[k - 1].end
      ]_vars

\* two commits and the final segment, from captions that begin after time
\* zero and do not all begin at the same time
C17_Witness ==
    /\ pc = "aligned"
    /\ Len(aligned_transcripts) = 3
    /\ youtube_caption[1].start > 0
    /\ aligned_transcripts[1].start = youtube_caption[1].start
    /\ aligned_transcripts[2].end > aligned_transcripts[1].start
    /\ aligned_transcripts[3].end = LastSegment(youtube_caption).end

\* C18: in the caption-longer case a match is reported only when a window of
\* exactly three words, starting among the first 100 transcript words and
\* normalized, occurs in a caption of at least three normalized words; the
\* shorter windows at the end of the transcript produce no match.
C18_OnlyFullWindowsMatch ==
    (BootstrapRan /\ InCaptionLongerCase /\ pc = "process_alignment") =>
        \E w \in 0..(Min(100, Len(transcript_text)) - 1),
           c \in 0..(Len(fetched_caption) - 1) :
            Len(Window(w)) = 3 /\ WindowMatches(w, c)

\* the session of the current row went through all four checks and all held
AllChecksHeld ==
    /\ evaluated = CheckOrder
    /\ \A k \in 1..Len(CheckOrder) : CheckHeld(CheckOrder[k])

\* the loop over the caption pairs of the current row ended without a commit
ZeroCommitFailure ==
    /\ raised = "IndexError"
    /\ AllChecksHeld
    /\ aligned_transcripts = <<>>

\* the current row has no captions, or no transcript words to align
EmptyInputFailure ==
    \/ raised = "IndexError" /\ fetched_caption = <<>>
    \/ raised = "ValueError" /\ AllChecksHeld
           /\ (youtube_caption = <<>> \/ transcript_list = <<>>)

\* C13: a zero-commit alignment or an empty input on one row never ends the
\* batch, and the batch is done only after every row was taken up (a failed
\* compatibility check or bootstrap skips its row the same way).
C13_FailureSkipsOnlyItsRow ==
    /\ pc = "aborted" => ~(ZeroCommitFailure \/ EmptyInputFailure)
    /\ pc = "done" => index = Len(rows)

\* the alignment step of the current row has been entered
AlignmentEntered ==
    \/ pc \in {"process_alignment", "align_loop", "aligned"}
    \/ aligned_transcripts # <<>>

\* something was saved for the current row, or process returned a path
Saved == out_path # "None" \/ aligned_transcript_json # <<>>

ChunkerRuns == pc \in {"get_chunks", "chunk_loop", "chunked"}

\* the compatibility check of the current row returned fail
SanityFailed ==
    \/ pc = "skipped"
    \/ pc = "process_returned" /\ ~AllChecksHeld

\* C14: the alignment step, the save step and the re-chunker run for a row
\* only after all four checks held in that row's session; when the check
\* fails no alignment is computed, nothing is saved, process returns None and
\* the re-chunker has not run when the driver moves on.
C14_CheckerGatesPipeline ==
    /\ (AlignmentEntered \/ Saved \/ ChunkerRuns) => AllChecksHeld
    /\ ChunkerRuns => out_path # "None"
    /\ SanityFailed =>
           /\ AlignIdle
           /\ ~Saved
           /\ transcript = <<>> /\ chunks = <<>>

\* the first row was aligned, saved and chunked; the second row failed the
\* similarity check and process has returned None for it
C14_Witness ==
    /\ pc = "process_returned"
    /\ index = 1
    /\ chunked_metadata # <<>>
    /\ cosine_similarity = 89
    /\ out_path = "None"

=============================================================================
